---- MODULE Spec2Model ----
(***************************************************************************)
(* Bandit strategies of deebo/algos.py: Random, EpsilonGreedy,             *)
(* AnnealingEpsilonGreedy, Boltzmann, AnnealingBoltzmann, Pursuit,         *)
(* ReinforcementComparison, UCB1 and UCB1Tuned, each with the operations   *)
(* reset, select_next_arm and update.                                      *)
(*                                                                         *)
(* Python floats are modelled as exact rationals <<num, den>> (den > 0,    *)
(* lowest terms); rounding, overflow and NaN of IEEE doubles are outside   *)
(* the model.  math.exp, math.log and math.sqrt have irrational values:    *)
(* softmax probabilities and confidence values are kept as the unevaluated *)
(* expressions the code computes them from, and argmax over confidence     *)
(* values is decided with rational interval bounds.                        *)
(***************************************************************************)
EXTENDS Integers, Sequences, FiniteSets, TLC

(* ---- bounds of the model ---- *)
MaxN == 2
MaxPulls == 3

Rewards == {-1, 0, 1, 5000}
ArmCounts == 1..MaxN

(* ---- exact rational arithmetic standing for Python float arithmetic ---- *)
Abs(x) == IF x < 0 THEN 0 - x ELSE x

RECURSIVE GCD(_, _)
GCD(a, b) == IF b = 0 THEN a ELSE GCD(b, a % b)

Rat(p, q) ==
  LET g == GCD(Abs(p), Abs(q))
      s == IF q < 0 THEN 0 - 1 ELSE 1
  IN  <<(s * p) \div g, (s * q) \div g>>

Zero == <<0, 1>>
One == <<1, 1>>
FromInt(i) == <<i, 1>>

RAdd(x, y) ==
  LET l == (x[2] * y[2]) \div GCD(x[2], y[2])
  IN  Rat(x[1] * (l \div x[2]) + y[1] * (l \div y[2]), l)
RNeg(x) == <<0 - x[1], x[2]>>
RSub(x, y) == RAdd(x, RNeg(y))
RMul(x, y) ==
  LET a == Rat(x[1], y[2])
      b == Rat(y[1], x[2])
  IN  <<a[1] * b[1], a[2] * b[2]>>
RLess(x, y) == x[1] * y[2] < y[1] * x[2]
RLeq(x, y) == x[1] * y[2] <= y[1] * x[2]
RMin(x, y) == IF RLess(y, x) THEN y ELSE x

(* ---- Python lists, indexed from 0 ---- *)
Empty == [i \in {} |-> 0]
Len0(a) == Cardinality(DOMAIN a)
List(k, v) == [i \in 0..(k - 1) |-> v]

RECURSIVE SumUpTo(_, _)
SumUpTo(a, k) == IF k < 0 THEN 0 ELSE a[k] + SumUpTo(a, k - 1)
(* sum(self.counts) / np.sum(self.counts) *)
SumInt(a) == SumUpTo(a, Len0(a) - 1)

RECURSIVE RSumUpTo(_, _)
RSumUpTo(a, k) == IF k < 0 THEN Zero ELSE RAdd(RSumUpTo(a, k - 1), a[k])
(* np.sum(self.emp_means) *)
RSum(a) == RSumUpTo(a, Len0(a) - 1)

(* np.argmax: index of the first occurrence of the maximum *)
ArgMax(a) ==
  CHOOSE i \in DOMAIN a :
    /\ \A j \in DOMAIN a : RLeq(a[j], a[i])
    /\ \A j \in DOMAIN a : j < i => RLess(a[j], a[i])

(* Python list indexing: -len <= i < len is accepted, negative i counts from the end *)
IndexOK(a, i) == (0 - Len0(a)) <= i /\ i < Len0(a)
EffIndex(a, i) == IF i < 0 THEN i + Len0(a) ELSE i

Algs == {"Random", "EpsilonGreedy", "AnnealingEpsilonGreedy", "Boltzmann",
         "AnnealingBoltzmann", "Pursuit", "ReinforcementComparison", "UCB1", "UCB1Tuned"}

VARIABLES
  alg,          \* the class of the strategy object
  param,        \* its hyper-parameters (epsilon, tau, lr, alpha, beta)
  counts,       \* self.counts
  emp_means,    \* self.emp_means
  probs,        \* self.probs (Pursuit, ReinforcementComparison)
  preferences,  \* self.preferences (ReinforcementComparison)
  exp_rewards,  \* self.exp_rewards (ReinforcementComparison)
  M2,           \* self.M2 (UCB1Tuned)
  ucbs,         \* self.ucbs (UCB1, UCB1Tuned)
  last,         \* the last call and its outcome
  hist,         \* history: the rewards each arm received since the last reset, as a multiset
  trace,        \* history: arms visited by select-then-update rounds since the last reset
                \* (UCB1, UCB1Tuned); pending is the arm selected and not yet updated, -1 when
                \* there is none, -2 when select returned no arm
  valid         \* history: every update since the last reset had 0 <= chosen_arm < n_arms

arrays == <<counts, emp_means, probs, preferences, exp_rewards, M2, ucbs>>
vars == <<alg, param, counts, emp_means, probs, preferences, exp_rewards, M2, ucbs, last, hist, trace, valid>>

(* ---- hyper-parameters given to the constructors ---- *)
NoParam == [epsilon |-> Zero, tau |-> One, lr |-> Zero, alpha |-> Zero, beta |-> Zero]
Params(a) ==
  CASE a = "EpsilonGreedy" -> {[NoParam EXCEPT !.epsilon = e] : e \in {<<1, 10>>, One}}
    [] a = "Boltzmann" -> {[NoParam EXCEPT !.tau = t] : t \in {<<1, 10>>}}
    [] a = "Pursuit" -> {[NoParam EXCEPT !.lr = l] : l \in {<<1, 2>>, One}}
    [] a = "ReinforcementComparison" -> {[NoParam EXCEPT !.alpha = <<1, 10>>, !.beta = b] : b \in {<<1, 2>>}}
    [] OTHER -> {NoParam}

HasProbs(a) == a \in {"Pursuit", "ReinforcementComparison"}
HasPrefs(a) == a = "ReinforcementComparison"
HasM2(a) == a = "UCB1Tuned"
HasUcbs(a) == a \in {"UCB1", "UCB1Tuned"}

(* ---- outcomes of a call ---- *)
Returned(i) == [kind |-> "returned", ret |-> i]
ReturnedNone == [kind |-> "none", ret |-> 0 - 1]
Raised == [kind |-> "raised", ret |-> 0 - 1]
(* op, its argument (n_arms of reset, chosen_arm of update), the outcome, and the number of *)
(* pulls recorded in self.counts when the call was made                                    *)
Call(op, arg, out, pulls) == [op |-> op, arg |-> arg, kind |-> out.kind, ret |-> out.ret, pulls |-> pulls]

(* ---- values the code computes with math.exp / math.sqrt / math.log, unevaluated ---- *)
(* a probability: either a rational, or exp(pref) / sum of exp(prefs) *)
Prob(x) == [soft |-> FALSE, val |-> x, prefs |-> Empty]
Softmax(prefs) == [a \in DOMAIN prefs |-> [soft |-> TRUE, val |-> prefs[a], prefs |-> prefs]]
(* math.exp is positive, so a softmax weight is positive *)
ProbPositive(p) == p.soft \/ RLess(Zero, p.val)

(* a confidence value: 0.0 after reset, else e + bonus computed from c, T (and m2) *)
ZeroUcb == [set |-> FALSE, e |-> Zero, c |-> 0, T |-> 0, m2 |-> Zero]
Ucb(e, c, T, m2) == [set |-> TRUE, e |-> e, c |-> c, T |-> T, m2 |-> m2]

(* ---- reset ---- *)
ResetCounts(k) == List(k, 0)
ResetMeans(k) == List(k, Zero)
ResetProbs(a, k) == IF HasProbs(a) THEN List(k, Prob(Rat(1, k))) ELSE Empty
ResetPrefs(a, k) == IF HasPrefs(a) THEN List(k, Zero) ELSE Empty
ResetExpRewards(a, k) == IF HasPrefs(a) THEN List(k, Zero) ELSE Empty
(* variant: M2 is not re-created when it already has the right size *)
ResetM2_Keep(a, k) == IF HasM2(a) THEN (IF Len0(M2) = k THEN M2 ELSE List(k, Zero)) ELSE Empty
ResetM2(a, k) == IF HasM2(a) THEN List(k, Zero) ELSE Empty
ResetUcbs(a, k) == IF HasUcbs(a) THEN List(k, ZeroUcb) ELSE Empty

NoTrace == [driven |-> FALSE, pending |-> 0 - 1, seq |-> <<>>]
FreshTrace(a) == IF HasUcbs(a) THEN [driven |-> TRUE, pending |-> 0 - 1, seq |-> <<>>] ELSE NoTrace

Reset(k) ==
  /\ counts' = ResetCounts(k)
  /\ emp_means' = ResetMeans(k)
  /\ probs' = ResetProbs(alg, k)
  /\ preferences' = ResetPrefs(alg, k)
  /\ exp_rewards' = ResetExpRewards(alg, k)
  /\ M2' = ResetM2(alg, k)
  /\ ucbs' = ResetUcbs(alg, k)
  /\ last' = Call("reset", k, ReturnedNone, SumInt(counts))
  /\ hist' = List(k, <<>>)
  /\ trace' = FreshTrace(alg)
  /\ valid' = TRUE
  /\ UNCHANGED <<alg, param>>

(* ---- update ---- *)
(* variant: the weights are taken from the count after one more increment *)
NewMean_StaleCount(n, value, reward) == RAdd(RMul(Rat(n, n + 1), value), RMul(Rat(1, n + 1), reward))

(* new_value = ((n - 1) / float(n)) * value + (1 / float(n)) * reward *)
NewMean(n, value, reward) == RAdd(RMul(Rat(n - 1, n), value), RMul(Rat(1, n), reward))

(* variant: the arms other than the best one keep their probability *)
PursuitProbs_NoDecay(p, means, lr) ==
  IF RSum(means) = Zero
  THEN p
  ELSE [ii \in DOMAIN p |->
          IF ii = ArgMax(means)
          THEN Prob(RAdd(p[ii].val, RMul(lr, RSub(One, p[ii].val))))
          ELSE p[ii]]

(* Pursuit: the loop over the arms after the mean update *)
PursuitProbs(p, means, lr) ==
  IF RSum(means) = Zero
  THEN p
  ELSE [ii \in DOMAIN p |->
          IF ii = ArgMax(means)
          THEN Prob(RAdd(p[ii].val, RMul(lr, RSub(One, p[ii].val))))
          ELSE Prob(RAdd(p[ii].val, RMul(lr, RSub(Zero, p[ii].val))))]

(* ReinforcementComparison *)
NewPreference(pref, beta, reward, expr) == RAdd(pref, RMul(beta, RSub(reward, expr)))
NewExpReward(expr, alpha, reward) == RAdd(RMul(RSub(One, alpha), expr), RMul(alpha, reward))

(* variant: the mean is overwritten before the increment is computed *)
NewM2_MeanOverwritten(m2, reward, old_mean, new_mean) ==
  RAdd(m2, RMul(RSub(reward, new_mean), RSub(reward, new_mean)))

(* UCB1Tuned: self.M2[chosen_arm] + (reward - old_mean) * (reward - new_mean) *)
NewM2(m2, reward, old_mean, new_mean) == RAdd(m2, RMul(RSub(reward, old_mean), RSub(reward, new_mean)))

(* variant: the count is smoothed with + 1 instead of + 1e-7 *)
UpdateUcbs_PlusOne(a, cnts, means, m2s) ==
  [arm \in DOMAIN cnts |->
     Ucb(means[arm], cnts[arm] + 1, SumInt(cnts), IF HasM2(a) THEN m2s[arm] ELSE Zero)]

(* _update_ucbs: every confidence value is recomputed from the current counts and means *)
UpdateUcbs(a, cnts, means, m2s) ==
  [arm \in DOMAIN cnts |->
     Ucb(means[arm], cnts[arm], SumInt(cnts), IF HasM2(a) THEN m2s[arm] ELSE Zero)]

(* the rewards of an arm are kept in ascending order *)
RECURSIVE Insert(_, _)
Insert(q, r) ==
  IF q = <<>> THEN <<r>>
  ELSE IF r <= Head(q) THEN <<r>> \o q
  ELSE <<Head(q)>> \o Insert(Tail(q), r)

TraceAfterUpdate(t, arm) ==
  IF t.driven /\ t.pending = arm
  THEN [driven |-> TRUE, pending |-> 0 - 1, seq |-> Append(t.seq, arm)]
  ELSE NoTrace

UpdateOK(idx, reward) ==
  LET arm == EffIndex(counts, idx)
      n == counts[arm] + 1
      r == FromInt(reward)
      old_mean == emp_means[arm]
      new_mean == NewMean(n, old_mean, r)
      cnts == [counts EXCEPT ![arm] = n]
      means == [emp_means EXCEPT ![arm] = new_mean]
      prefs == [preferences EXCEPT ![arm] = NewPreference(preferences[arm], param.beta, r, exp_rewards[arm])]
      m2s == [M2 EXCEPT ![arm] = NewM2(M2[arm], r, old_mean, new_mean)]
  IN  /\ counts' = cnts
      /\ emp_means' = means
      /\ probs' = CASE alg = "Pursuit" -> PursuitProbs(probs, means, param.lr)
                    [] alg = "ReinforcementComparison" -> Softmax(prefs)
                    [] OTHER -> probs
      /\ preferences' = IF HasPrefs(alg) THEN prefs ELSE preferences
      /\ exp_rewards' = IF HasPrefs(alg)
                        THEN [exp_rewards EXCEPT ![arm] = NewExpReward(exp_rewards[arm], param.alpha, r)]
                        ELSE exp_rewards
      /\ M2' = IF HasM2(alg) THEN m2s ELSE M2
      /\ ucbs' = IF HasUcbs(alg) THEN UpdateUcbs(alg, cnts, means, IF HasM2(alg) THEN m2s ELSE M2) ELSE ucbs
      /\ last' = Call("update", idx, ReturnedNone, SumInt(counts))
      /\ hist' = [hist EXCEPT ![arm] = Insert(hist[arm], reward)]
      /\ trace' = TraceAfterUpdate(trace, arm)
      /\ valid' = (valid /\ idx >= 0)

(* self.counts[chosen_arm] raises IndexError before anything is assigned *)
UpdateRaises(idx) ==
  /\ last' = Call("update", idx, Raised, SumInt(counts))
  /\ trace' = NoTrace
  /\ valid' = FALSE
  /\ UNCHANGED <<arrays, hist>>

Update(idx, reward) ==
  /\ IF IndexOK(counts, idx)
     THEN SumInt(counts) < MaxPulls /\ UpdateOK(idx, reward)
     ELSE UpdateRaises(idx)
  /\ UNCHANGED <<alg, param>>

(* ---- rational bounds of the confidence values ---- *)
(* math.log(k), k = sum(self.counts) + 1, in units of 1/10000, rounded down *)
LogTable == <<0, 6931, 10986, 13862, 16094, 17917, 19459, 20794, 21972, 23025, 23978, 24849>>
LogLo(k) == LogTable[k]
LogHi(k) == IF k = 1 THEN 0 ELSE LogTable[k] + 1

RECURSIVE SqrtSearch(_, _, _)
SqrtSearch(x, lo, hi) ==
  IF lo = hi THEN lo
  ELSE LET mid == (lo + hi + 1) \div 2
       IN  IF mid * mid <= x THEN SqrtSearch(x, mid, hi) ELSE SqrtSearch(x, lo, mid - 1)
(* the largest r with r * r <= x *)
ISqrt(x) == SqrtSearch(x, 0, 46340)

Floor(x) == x[1] \div x[2]
Ceil(x) == 0 - ((0 - x[1]) \div x[2])
Max0(i) == IF i < 0 THEN 0 ELSE i

(* bounds of math.sqrt(f * math.log(T + 1) / (c + 1e-7)) for a rational factor f >= 0;    *)
(* lo is used with the lower bound of the logarithm, hi with the upper bound.             *)
(* c = 0: the radicand is f * log * 1e7; c >= 1: it lies in [f*log/c * (1 - 1e-7), f*log/c] *)
BonusLo(f, c, T) ==
  IF c = 0
  THEN FromInt(ISqrt(Floor(RMul(f, FromInt(LogLo(T + 1) * 1000)))))
  ELSE Rat(ISqrt(Max0(Floor(RMul(f, Rat(LogLo(T + 1), c))) - 1)), 100)
BonusHi(f, c, T) ==
  IF c = 0
  THEN FromInt(ISqrt(Ceil(RMul(f, FromInt(LogHi(T + 1) * 1000)))) + 1)
  ELSE Rat(ISqrt(Ceil(RMul(f, Rat(LogHi(T + 1), c)))) + 1, 100)

Two == <<2, 1>>
Quarter == <<1, 4>>

(* UCB1Tuned: mins[arm] = min(1/4, M2/(c + 1e-7) + sqrt(2 log(T+1) / (c + 1e-7))); M2 >= 0 *)
TunedMinLo(u) == RMin(Quarter, BonusLo(Two, u.c, u.T))
TunedMinHi(u) ==
  IF RLeq(Quarter, BonusLo(Two, u.c, u.T)) THEN Quarter
  ELSE IF u.c = 0 THEN Quarter
  ELSE RMin(Quarter, RAdd(RMul(u.m2, Rat(1, u.c)), BonusHi(Two, u.c, u.T)))

(* bounds of ucbs[arm] *)
UcbLo(a, u) ==
  IF ~u.set THEN Zero
  ELSE IF a = "UCB1Tuned" THEN RAdd(u.e, BonusLo(TunedMinLo(u), u.c, u.T))
  ELSE RAdd(u.e, BonusLo(Two, u.c, u.T))
UcbHi(a, u) ==
  IF ~u.set THEN Zero
  ELSE IF a = "UCB1Tuned" THEN RAdd(u.e, BonusHi(TunedMinHi(u), u.c, u.T))
  ELSE RAdd(u.e, BonusHi(Two, u.c, u.T))

(* np.argmax(self.ucbs): the arms that can be the first maximum.  An arm is excluded when  *)
(* another arm's value is certainly larger, or an earlier arm has the very same value.     *)
ArgMaxUcbs(a, u) ==
  {i \in DOMAIN u :
     /\ \A j \in DOMAIN u : ~RLess(UcbHi(a, u[i]), UcbLo(a, u[j]))
     /\ \A j \in DOMAIN u : j < i => u[j] # u[i]}

(* ---- select_next_arm ---- *)
(* random.randrange(len(self.emp_means)): ValueError on an empty range *)
RandRange(k) == IF k = 0 THEN {Raised} ELSE {Returned(i) : i \in 0..(k - 1)}

(* np.argmax(self.emp_means): ValueError on an empty list *)
ArgMaxMeans(means) == IF Len0(means) = 0 THEN {Raised} ELSE {Returned(ArgMax(means))}

(* random.random() is in [0, 1): `random.random() > epsilon` can hold iff epsilon < 1 and *)
(* can fail iff epsilon >= 0 *)
GreedyOrRandom(canExploit, canExplore, means) ==
  (IF canExploit THEN ArgMaxMeans(means) ELSE {})
    \cup (IF canExplore THEN RandRange(Len0(means)) ELSE {})

(* epsilon = 1/math.log(t + 1e-7) is below 1 iff t + 1e-7 > e, that is t >= 3; it is positive for t >= 1 *)
AnnealedBelowOne(t) == t >= 3

(* random.choices(np.arange(k), weights=w, k=1)[0]: an arm of positive weight; raises on an empty population *)
Choices(w) == IF Len0(w) = 0 THEN {Raised} ELSE {Returned(i) : i \in {j \in DOMAIN w : ProbPositive(w[j])}}

(* Boltzmann: weights math.exp(v / tau) / z; v / tau raises ZeroDivisionError when tau = 0 *)
BoltzmannSelect(means, tau) ==
  IF Len0(means) > 0 /\ tau = Zero THEN {Raised}
  ELSE Choices([i \in DOMAIN means |-> [soft |-> TRUE, val |-> RMul(means[i], <<tau[2], tau[1]>>), prefs |-> Empty]])

(* AnnealingBoltzmann: tau = 1/math.log(t + 1e-7) > 0, so v / tau = v * log(t + 1e-7) *)
AnnealingBoltzmannSelect(means) ==
  Choices([i \in DOMAIN means |-> [soft |-> TRUE, val |-> means[i], prefs |-> Empty]])

(* variant: the loop runs from the last arm down *)
FirstPass_Reversed(cnts) ==
  IF \E arm \in DOMAIN cnts : cnts[arm] = 0
  THEN {Returned(CHOOSE arm \in DOMAIN cnts :
                   cnts[arm] = 0 /\ \A b \in DOMAIN cnts : b > arm => cnts[b] # 0)}
  ELSE {ReturnedNone}

(* the first pass of UCB1 / UCB1Tuned: the loop returns the first arm of count 0, and the *)
(* function ends without a return statement when the loop finds none *)
FirstPass(cnts) ==
  IF \E arm \in DOMAIN cnts : cnts[arm] = 0
  THEN {Returned(CHOOSE arm \in DOMAIN cnts :
                   cnts[arm] = 0 /\ \A b \in DOMAIN cnts : b < arm => cnts[b] # 0)}
  ELSE {ReturnedNone}

(* variant: the first pass is entered with <= instead of < *)
UcbSelect_Leq(a, cnts, u) ==
  IF SumInt(cnts) <= Len0(cnts) THEN FirstPass(cnts)
  ELSE IF Len0(u) = 0 THEN {Raised}
  ELSE {Returned(i) : i \in ArgMaxUcbs(a, u)}

UcbSelect(a, cnts, u) ==
  IF SumInt(cnts) < Len0(cnts) THEN FirstPass(cnts)
  ELSE IF Len0(u) = 0 THEN {Raised}
  ELSE {Returned(i) : i \in ArgMaxUcbs(a, u)}

SelectOutcomes ==
  CASE alg = "Random" -> RandRange(Len0(emp_means))
    [] alg = "EpsilonGreedy" ->
         GreedyOrRandom(RLess(param.epsilon, One), RLeq(Zero, param.epsilon), emp_means)
    [] alg = "AnnealingEpsilonGreedy" ->
         GreedyOrRandom(AnnealedBelowOne(SumInt(counts) + 1), TRUE, emp_means)
    [] alg = "Boltzmann" -> BoltzmannSelect(emp_means, param.tau)
    [] alg = "AnnealingBoltzmann" -> AnnealingBoltzmannSelect(emp_means)
    [] alg = "Pursuit" -> Choices(probs)
    [] alg = "ReinforcementComparison" -> Choices(probs)
    [] alg \in {"UCB1", "UCB1Tuned"} -> UcbSelect(alg, counts, ucbs)

TraceAfterSelect(t, out) ==
  IF t.driven /\ t.pending = 0 - 1
  THEN [t EXCEPT !.pending = IF out.kind = "returned" THEN out.ret ELSE 0 - 2]
  ELSE NoTrace

(* variant: selecting an arm already counts the pull *)
Select_Counting ==
  /\ \E out \in SelectOutcomes :
       /\ last' = Call("select", 0, out, SumInt(counts))
       /\ trace' = TraceAfterSelect(trace, out)
       /\ counts' = IF out.kind = "returned" /\ SumInt(counts) < MaxPulls
                    THEN [counts EXCEPT ![out.ret] = @ + 1] ELSE counts
  /\ UNCHANGED <<alg, param, emp_means, probs, preferences, exp_rewards, M2, ucbs, hist, valid>>

Select ==
  /\ \E out \in SelectOutcomes :
       /\ last' = Call("select", 0, out, SumInt(counts))
       /\ trace' = TraceAfterSelect(trace, out)
  /\ UNCHANGED <<alg, param, arrays, hist, valid>>

(* ---- the strategy object ---- *)
Init ==
  /\ alg \in Algs
  /\ param \in Params(alg)
  /\ counts = Empty
  /\ emp_means = Empty
  /\ probs = Empty
  /\ preferences = Empty
  /\ exp_rewards = Empty
  /\ M2 = Empty
  /\ ucbs = Empty
  /\ last = Call("init", 0, ReturnedNone, 0)
  /\ hist = Empty
  /\ trace = NoTrace
  /\ valid = TRUE

(* chosen_arm: every arm, the first index past the end, -1 (the last arm in Python) and *)
(* the first index before -n_arms                                                      *)
ArmArgs == {0 - (Len0(counts) + 1), 0 - 1} \cup 0..Len0(counts)
(* the reward is not read when the index is rejected *)
RewardArgs(idx) == IF IndexOK(counts, idx) THEN Rewards ELSE {0}

Next ==
  \/ \E k \in ArmCounts : Reset(k)
  \/ \E idx \in ArmArgs : \E reward \in RewardArgs(idx) : Update(idx, reward)
  \/ Select

Spec == Init /\ [][Next]_vars

(* ======================= properties ======================= *)
n_arms == Len0(counts)

RECURSIVE SeqSum(_)
SeqSum(q) == IF q = <<>> THEN 0 ELSE Head(q) + SeqSum(Tail(q))
(* (r1 + ... + rk) / k *)
ArithMean(q) == Rat(SeqSum(q), Len(q))

RECURSIVE SqDevSum(_, _)
SqDevSum(q, m) ==
  IF q = <<>> THEN Zero
  ELSE RAdd(RMul(RSub(FromInt(Head(q)), m), RSub(FromInt(Head(q)), m)), SqDevSum(Tail(q), m))
(* sum over i of (r_i - m)^2, m the arithmetic mean *)
SumSqDev(q) == SqDevSum(q, ArithMean(q))

UpdateDone == last.op = "update" /\ last.kind # "raised"
LowestZeroArm == CHOOSE a \in DOMAIN counts : counts[a] = 0 /\ \A b \in DOMAIN counts : b < a => counts[b] # 0
SomeZeroArm == \E a \in DOMAIN counts : counts[a] = 0

(* C1: after reset(n) and any updates in which arm a received exactly r1..rk, count[a] = k *)
(* and (k >= 1) mean_reward[a] = (r1+...+rk)/k; a step that gives arm a no reward leaves   *)
(* count[a] and mean_reward[a] as they were (while the arrays keep their size).           *)
C1_MeanInvariant ==
  /\ [](\A a \in DOMAIN hist :
          /\ counts[a] = Len(hist[a])
          /\ Len(hist[a]) >= 1 => emp_means[a] = ArithMean(hist[a]))
  /\ [][\A a \in DOMAIN counts :
          (last'.op = "update" /\ a \in DOMAIN hist' /\ hist'[a] = hist[a])
             => (counts'[a] = counts[a] /\ emp_means'[a] = emp_means[a])]_vars
C1_Witness ==
  \E a, b \in DOMAIN hist :
    /\ a # b /\ UpdateDone
    /\ Len(hist[a]) = 2 /\ hist[a][1] # hist[a][2]
    /\ Len(hist[b]) = 1
    /\ emp_means[a] = <<1, 2>>

(* C2: update with chosen_arm outside 0 <= chosen_arm < n_arms signals a failure and leaves *)
(* every per-arm array unchanged.                                                          *)
C2_OutOfRangeFails ==
  [][(last'.op = "update" /\ ~(0 <= last'.arg /\ last'.arg < n_arms))
       => (last'.kind = "raised" /\ UNCHANGED arrays)]_vars

(* C3: UCB1 / UCB1Tuned: from a fresh reset(n), rounds of select_next_arm followed by      *)
(* update of the arm selected visit 0, 1, ..., n-1 in that order during the first n rounds. *)
C3_WarmUpOrder ==
  (HasUcbs(alg) /\ trace.driven) =>
     /\ \A i \in 1..Len(trace.seq) : i <= n_arms => trace.seq[i] = i - 1
     /\ (trace.pending # 0 - 1 /\ Len(trace.seq) < n_arms) => trace.pending = Len(trace.seq)
C3_Witness ==
  /\ alg = "UCB1Tuned" /\ trace.driven /\ UpdateDone
  /\ n_arms = MaxN /\ Len(trace.seq) = n_arms
  /\ \E a \in DOMAIN emp_means : emp_means[a] # Zero

(* C4: Pursuit with lr in (0,1]: after reset(n) and any updates every probability is       *)
(* non-negative and the probabilities sum to exactly 1.                                    *)
C4_PursuitDistribution ==
  (alg = "Pursuit" /\ Len0(probs) >= 1) =>
     /\ \A i \in DOMAIN probs : ~probs[i].soft /\ RLeq(Zero, probs[i].val)
     /\ RSum([i \in DOMAIN probs |-> probs[i].val]) = One
C4_Witness ==
  /\ alg = "Pursuit" /\ UpdateDone /\ n_arms = 2 /\ param.lr = <<1, 2>>
  /\ \E i \in DOMAIN probs : RLess(<<1, 2>>, probs[i].val) /\ RLess(probs[i].val, One)

(* C5: Pursuit.update skips the probability update exactly when all mean rewards are 0    *)
(* after the mean update; otherwise p[a*] += lr*(1-p[a*]) for the lowest-index argmax a*   *)
(* of mean_reward and p[a] -= lr*p[a] for the other arms.                                  *)
ClaimedPursuitProbs(p, means, lr) ==
  IF \A a \in DOMAIN means : means[a] = Zero THEN p
  ELSE [a \in DOMAIN p |->
          IF a = ArgMax(means)
          THEN Prob(RAdd(p[a].val, RMul(lr, RSub(One, p[a].val))))
          ELSE Prob(RSub(p[a].val, RMul(lr, p[a].val)))]
C5_SkipOnlyWhenAllZero ==
  [][(alg = "Pursuit" /\ valid' /\ last'.op = "update" /\ last'.kind # "raised")
       => probs' = ClaimedPursuitProbs(probs, emp_means', param.lr)]_vars

(* C6: reset(n) leaves the zero/uniform state (counts 0, means 0, M2, ucbs, preferences,   *)
(* expected rewards 0, probabilities 1/n) whatever preceded it, and a second reset(n)      *)
(* right after it yields the same state.                                                   *)
IsFresh(k) ==
  /\ counts = [i \in 0..(k - 1) |-> 0]
  /\ emp_means = [i \in 0..(k - 1) |-> <<0, 1>>]
  /\ alg \in {"Pursuit", "ReinforcementComparison"} =>
       /\ DOMAIN probs = 0..(k - 1)
       /\ \A i \in DOMAIN probs : ~probs[i].soft /\ probs[i].val[1] * k = probs[i].val[2]
  /\ alg = "ReinforcementComparison" =>
       /\ preferences = [i \in 0..(k - 1) |-> <<0, 1>>]
       /\ exp_rewards = [i \in 0..(k - 1) |-> <<0, 1>>]
  /\ alg = "UCB1Tuned" => M2 = [i \in 0..(k - 1) |-> <<0, 1>>]
  /\ alg \in {"UCB1", "UCB1Tuned"} =>
       /\ DOMAIN ucbs = 0..(k - 1)
       /\ \A i \in DOMAIN ucbs : ~ucbs[i].set
C6_ResetDiscards ==
  /\ [](last.op = "reset" => IsFresh(last.arg))
  /\ [][(last.op = "reset" /\ last'.op = "reset" /\ last'.arg = last.arg) => UNCHANGED arrays]_vars
C6_Witness ==
  /\ last.op = "reset" /\ last.pulls = MaxPulls /\ last.arg = 2
  /\ alg = "UCB1Tuned"

(* C7: select_next_arm changes no per-arm array, in every state after reset(n), the cold   *)
(* start included.                                                                         *)
C7_SelectPure ==
  [][last'.op = "select" => UNCHANGED arrays]_vars
C7_Witness ==
  /\ last.op = "select" /\ last.kind = "returned"
  /\ n_arms >= 2 /\ SumInt(counts) = 0
  /\ alg = "AnnealingEpsilonGreedy"

C9_ZeroCountFirst ==
  (HasUcbs(alg) /\ valid /\ last.op = "select" /\ SomeZeroArm) =>
     (last.kind = "returned" /\ last.ret = LowestZeroArm)
(* C9 (amended): the same, provided the sum of the counts is below n_arms or every mean    *)
(* reward is at most 1000.                                                                 *)
C9_ZeroCountFirstBounded ==
  (/\ HasUcbs(alg) /\ last.op = "select" /\ SomeZeroArm
   /\ \/ SumInt(counts) < n_arms
      \/ \A a \in DOMAIN emp_means : RLeq(emp_means[a], FromInt(1000)))
    => (last.kind = "returned" /\ last.ret = LowestZeroArm)
C9_Witness ==
  /\ HasUcbs(alg) /\ last.op = "select" /\ n_arms = 2
  /\ counts[0] = 3 /\ emp_means[0] = One /\ SumInt(counts) = 3
  /\ last.kind = "returned" /\ last.ret = 1

(* C10: UCB1Tuned: after arm a received exactly r1..rk (k >= 1), M2[a] is the sum over i   *)
(* of (r_i - m)^2 with m the arithmetic mean of r1..rk.                                    *)
C10_M2IsSumOfSquares ==
  alg = "UCB1Tuned" =>
    \A a \in DOMAIN hist : Len(hist[a]) >= 1 => M2[a] = SumSqDev(hist[a])
C10_Witness ==
  /\ alg = "UCB1Tuned" /\ UpdateDone
  /\ \E a, b \in DOMAIN hist :
       /\ a # b /\ Len(hist[b]) >= 1
       /\ Len(hist[a]) = 2 /\ hist[a][1] = 0 - 1 /\ hist[a][2] = 1
       /\ M2[a] = <<2, 1>>

====
